---- MODULE Spec2Model ----
(***************************************************************************)
(* Messenger CRM dashboard: the document-store operations (tags, contacts, *)
(* campaigns), the companion-extension prober, the request/response        *)
(* messaging, the sync-channel push and the reconciliation of remote       *)
(* change notifications.                                                   *)
(*                                                                         *)
(* Each subsystem has its own next-state relation and specification; the   *)
(* variables of the other subsystems stay unchanged under it.              *)
(***************************************************************************)
EXTENDS Integers, Sequences, FiniteSets, TLC

(***************************************************************************)
(* Universes of document ids.                                              *)
(***************************************************************************)
TagIds == {"t1", "t2", "t3"}
ContactIds == {"c1", "c2"}

\* Number of store writes other clients may interleave with a tag deletion.
MaxWrites == 2
\* Number of tag deletions the TagsView issues in one run.
MaxDeleteCalls == 2

VARIABLES
    \* ---- store: users/{uid}/tags and users/{uid}/contacts ----
    tagDocs,        \* ids of the tag documents that exist
    contactDocs,    \* contact id -> its tags array, for the contacts that exist
    \* ---- TagsView (React state fed by onSnapshot) ----
    localContacts,  \* the `contacts` list the view last received
    batch,          \* the write batch of the deletion in flight, and its outcome
    writes,         \* store writes made by other handlers so far
    deleteCalls,    \* deletions issued so far
    \* ---- store: users/{uid}/campaigns, one campaign document ----
    campaign,       \* the document's fields; status "none" while it does not exist
    uiStatus,       \* per dashboard session: the status its campaign row shows
    lastWrite,      \* the last store write to the campaign and the status it found
    \* ---- useExtension: the status prober ----
    runtime,        \* window.chrome.runtime: "absent", "noSendMessage" or "present"
    status,         \* the hook's ExtensionStatus state
    probes,         \* the invocations of checkExtensionStatus
    \* ---- requests to the companion (chrome.runtime.sendMessage) ----
    requests,       \* per request kind: the promise, its timer, the message in flight
    \* ---- pushes of the local collections to the companion ----
    collections,    \* AppStateProvider state: contacts, tags, templates
    reach,          \* how the companion can be reached at the moment
    pushes,         \* the invocations of syncWithExtension
    outbox,         \* SYNC_*_TO_EXTENSION messages handed to chrome.runtime.sendMessage
    \* ---- change notifications from the companion ----
    store,          \* ids of the documents in users/{uid}/contacts, tags, templates
    user,           \* TRUE while a user is signed in
    sync,           \* the running SYNC_*_FROM_EXTENSION handler
    otherWrites,    \* writes to the collections from outside the handler
    \* ---- the bulk-send command of the hook (useExtension.sendBulkCampaign) ----
    bulk,           \* the invocation of sendBulkCampaign
    shouldPoll,     \* useExtension state: progress polling wanted
    \* ---- the store-level start of a campaign (CampaignManager.handleStartCampaign) ----
    start,          \* the invocation of startCampaign and what it reported
    \* ---- AppStateProvider: tags with their contact counts ----
    appTags,        \* state `tags`: tag id -> contactCount, for the tags held
    appContacts,    \* state `contacts`: contact id -> its tag ids, for the contacts held
    \* ---- progress of a bulk send: push notifications, poller, SimpleBulkSend ----
    run,            \* the companion's job: phase, messages handled, messages sent
    pushQueue,      \* BULK_SEND_* notifications posted to the page, in order
    pollReplies,    \* GET_BULK_PROGRESS replies on their way to the callback
    extensionBulkSendProgress,\* AppStateProvider state, set by the notifications
    bulkSendProgress,\* useExtension state, set by the poller
    lastProgressState,\* SimpleBulkSend state: the progress its effect last saw
    completions,    \* completion notifications shown by SimpleBulkSend
    pollInterval,   \* TRUE while the setInterval of pollProgress is armed
    probeInterval,  \* TRUE while the setInterval of checkExtensionStatus is armed
    mounted,        \* TRUE while SimpleBulkSend (and its useExtension) is mounted
    extClearTimer,  \* TRUE while a 3000 ms timer of handleBulkSendComplete is pending
    hookClearTimer, \* the 3000 ms timer of the poller: "off", "armed" or "fired"
    cancel,         \* the invocation of handleCancel
    \* ---- BulkCampaignContent: the progress of its own useExtension instance ----
    pageProgress,   \* bulkSendProgress of the hook instance of the campaign page
    pageToasts,     \* the toasts the page's progress effect has shown, in order
    \* ---- the campaign document as the store functions of firebase.ts write it ----
    campaignDoc,    \* the stored document users/{uid}/campaigns/{id}, field by field
    docOp,          \* the store function that wrote last
    \* ---- the recipients of a BULK_SEND message ----
    people,         \* contacts held by the web app: id -> [tagged, userId, source]
    recipientContactIds,\* recipientContactIds of the saved campaign
    bulkSend,       \* the last BULK_SEND message: where from and its recipients
    \* ---- AppStateProvider: what the push effects hand to syncWithExtension ----
    provPc,         \* "constructed" before the effects of the first render, then "running"
    provUser,       \* state `user`: "null" or the signed-in user
    provLoaded,     \* the contacts listener of the subscription has delivered a snapshot
    provContacts,   \* state `contacts`
    userStore,      \* the contacts collection of the user in the store
    handed          \* pushes made: their number and the payload of the last one

tagVars == <<tagDocs, contactDocs, localContacts, batch, writes, deleteCalls>>
campaignVars == <<campaign, uiStatus, lastWrite>>
probeVars == <<runtime, status, probes>>
requestVars == <<requests>>
pushVars == <<collections, reach, pushes, outbox>>
syncVars == <<store, user, sync, otherWrites>>
dispatchVars == <<bulk, shouldPoll>>
startVars == <<start>>
countsVars == <<appTags, appContacts>>
progressVars == <<run, pushQueue, pollReplies, extensionBulkSendProgress, bulkSendProgress, lastProgressState, completions, pollInterval, probeInterval, mounted, extClearTimer, hookClearTimer, cancel>>
pageVars == <<pageProgress, pageToasts>>
docVars == <<campaignDoc, docOp>>
recipientsVars == <<people, recipientContactIds, bulkSend>>
providerVars == <<provPc, provUser, provLoaded, provContacts, userStore, handed>>

vars == <<tagVars, campaignVars, probeVars, requestVars, pushVars, syncVars, dispatchVars, startVars, countsVars, progressVars, pageVars, docVars, recipientsVars, providerVars>>

nonTagVars == <<campaignVars, probeVars, requestVars, pushVars, syncVars, dispatchVars, startVars, countsVars, progressVars, pageVars, docVars, recipientsVars, providerVars>>
nonCampaignVars == <<tagVars, probeVars, requestVars, pushVars, syncVars, dispatchVars, startVars, countsVars, progressVars, pageVars, docVars, recipientsVars, providerVars>>
nonProbeVars == <<tagVars, campaignVars, requestVars, pushVars, syncVars, dispatchVars, startVars, countsVars, progressVars, pageVars, docVars, recipientsVars, providerVars>>
nonRequestVars == <<tagVars, campaignVars, probeVars, pushVars, syncVars, dispatchVars, startVars, countsVars, progressVars, pageVars, docVars, recipientsVars, providerVars>>
nonPushVars == <<tagVars, campaignVars, probeVars, requestVars, syncVars, dispatchVars, startVars, countsVars, progressVars, pageVars, docVars, recipientsVars, providerVars>>
nonSyncVars == <<tagVars, campaignVars, probeVars, requestVars, pushVars, dispatchVars, startVars, countsVars, progressVars, pageVars, docVars, recipientsVars, providerVars>>
nonDispatchVars == <<tagVars, campaignVars, probeVars, requestVars, pushVars, syncVars, startVars, countsVars, progressVars, pageVars, docVars, recipientsVars, providerVars>>
nonStartVars == <<tagVars, campaignVars, probeVars, requestVars, pushVars, syncVars, dispatchVars, countsVars, progressVars, pageVars, docVars, recipientsVars, providerVars>>
nonCampaignStartVars == <<tagVars, probeVars, requestVars, pushVars, syncVars, dispatchVars, countsVars, progressVars, pageVars, docVars, recipientsVars, providerVars>>
nonCountsVars == <<tagVars, campaignVars, probeVars, requestVars, pushVars, syncVars, dispatchVars, startVars, progressVars, pageVars, docVars, recipientsVars, providerVars>>
nonProgressVars == <<tagVars, campaignVars, probeVars, requestVars, pushVars, syncVars, dispatchVars, startVars, countsVars, pageVars, docVars, recipientsVars, providerVars>>
nonDispatchProgressVars == <<tagVars, campaignVars, probeVars, requestVars, pushVars, syncVars, startVars, countsVars, pageVars, docVars, recipientsVars, providerVars>>
nonPageVars == <<tagVars, campaignVars, probeVars, requestVars, pushVars, syncVars, dispatchVars, startVars, countsVars, progressVars, docVars, recipientsVars, providerVars>>
nonDocVars == <<tagVars, campaignVars, probeVars, requestVars, pushVars, syncVars, dispatchVars, startVars, countsVars, progressVars, pageVars, recipientsVars, providerVars>>
nonRecipientsVars == <<tagVars, campaignVars, probeVars, requestVars, pushVars, syncVars, dispatchVars, startVars, countsVars, progressVars, pageVars, docVars, providerVars>>
nonProviderVars == <<tagVars, campaignVars, probeVars, requestVars, pushVars, syncVars, dispatchVars, startVars, countsVars, progressVars, pageVars, docVars, recipientsVars>>

NoBatch == [phase |-> "none", deletes |-> {}, updates |-> {}]

\* The spec's scenario store: 3 tags, 2 contacts each referencing 2 of them;
\* the view has received its first contacts snapshot.
InitTags ==
    /\ tagDocs = TagIds
    /\ contactDocs = [c \in ContactIds |-> IF c = "c1" THEN {"t1", "t2"} ELSE {"t2", "t3"}]
    /\ localContacts = contactDocs
    /\ batch = NoBatch
    /\ writes = 0
    /\ deleteCalls = 0

(***************************************************************************)
(* firebase.ts: tagging writes and contact deletion.                       *)
(***************************************************************************)
\* updateDoc(contactRef, {tags: arrayUnion(tagId)}); fails on a missing document.
addTagToContact(contactId, tagId) ==
    /\ writes < MaxWrites
    /\ contactId \in DOMAIN contactDocs
    /\ contactDocs' = [contactDocs EXCEPT ![contactId] = @ \cup {tagId}]
    /\ writes' = writes + 1
    /\ UNCHANGED <<tagDocs, localContacts, batch, deleteCalls>>
    /\ UNCHANGED nonTagVars

\* updateDoc(contactRef, {tags: arrayRemove(tagId)}); fails on a missing document.
untagContact(contactId, tagId) ==
    /\ writes < MaxWrites
    /\ contactId \in DOMAIN contactDocs
    /\ contactDocs' = [contactDocs EXCEPT ![contactId] = @ \ {tagId}]
    /\ writes' = writes + 1
    /\ UNCHANGED <<tagDocs, localContacts, batch, deleteCalls>>
    /\ UNCHANGED nonTagVars

\* A batch of deletes: deleting a missing document succeeds.
deleteContacts(contactIds) ==
    /\ writes < MaxWrites
    /\ contactDocs' = [c \in (DOMAIN contactDocs) \ contactIds |-> contactDocs[c]]
    /\ writes' = writes + 1
    /\ UNCHANGED <<tagDocs, localContacts, batch, deleteCalls>>
    /\ UNCHANGED nonTagVars

\* onSnapshot(contactsQuery) -> setContacts(contactsData)
ContactsSnapshot ==
    /\ localContacts # contactDocs
    /\ localContacts' = contactDocs
    /\ UNCHANGED <<tagDocs, contactDocs, batch, writes, deleteCalls>>
    /\ UNCHANGED nonTagVars

(***************************************************************************)
(* firebase.ts deleteTag / deleteTags: the batch is built from the         *)
(* caller's contacts list, then committed.                                 *)
(***************************************************************************)
\* The writes deleteTags puts in the batch for tagIds, given the caller's list.
DeleteTagsBatch(tagIds, contacts) ==
    [phase |-> "pending",
     deletes |-> tagIds,
     updates |-> {ct \in (DOMAIN contacts) \X tagIds : ct[2] \in contacts[ct[1]]}]

\* TagsView.handleDeleteTag -> deleteTag(uid, tagId, contacts)
deleteTag(tagId) ==
    /\ batch.phase # "pending"
    /\ deleteCalls < MaxDeleteCalls
    /\ batch' = DeleteTagsBatch({tagId}, localContacts)
    /\ deleteCalls' = deleteCalls + 1
    /\ UNCHANGED <<tagDocs, contactDocs, localContacts, writes>>
    /\ UNCHANGED nonTagVars

\* TagsView.handleDeleteSelected -> deleteTags(uid, selectedTagIds, contacts)
deleteTags(tagIds) ==
    /\ batch.phase # "pending"
    /\ deleteCalls < MaxDeleteCalls
    /\ tagIds # {}
    /\ batch' = DeleteTagsBatch(tagIds, localContacts)
    /\ deleteCalls' = deleteCalls + 1
    /\ UNCHANGED <<tagDocs, contactDocs, localContacts, writes>>
    /\ UNCHANGED nonTagVars

\* A batch commits only if every document it updates exists.
BatchCanCommit(b) == \A ct \in b.updates : ct[1] \in DOMAIN contactDocs

\* The contacts collection after the arrayRemove updates of b.
ContactsAfter(b, docs) ==
    [c \in DOMAIN docs |-> docs[c] \ {t \in TagIds : <<c, t>> \in b.updates}]

\* A plausible slip: the deletes and updates issued one by one instead of as a
\* batch, so the writes before the first failing one stay applied.
BatchCommit_OneByOne ==
    /\ batch.phase = "pending"
    /\ tagDocs' = tagDocs \ batch.deletes
    /\ contactDocs' = ContactsAfter(batch, contactDocs)
    /\ batch' = [batch EXCEPT !.phase = IF BatchCanCommit(batch) THEN "ok" ELSE "failed"]
    /\ UNCHANGED <<localContacts, writes, deleteCalls>>
    /\ UNCHANGED nonTagVars

\* await batch.commit(): all of the batch's writes, or none of them.
BatchCommit ==
    /\ batch.phase = "pending"
    /\ IF BatchCanCommit(batch)
       THEN /\ tagDocs' = tagDocs \ batch.deletes
            /\ contactDocs' = ContactsAfter(batch, contactDocs)
            /\ batch' = [batch EXCEPT !.phase = "ok"]
       ELSE /\ batch' = [batch EXCEPT !.phase = "failed"]
            /\ UNCHANGED <<tagDocs, contactDocs>>
    /\ UNCHANGED <<localContacts, writes, deleteCalls>>
    /\ UNCHANGED nonTagVars

NextTags ==
    \/ \E c \in ContactIds, t \in TagIds : addTagToContact(c, t)
    \/ \E c \in ContactIds, t \in TagIds : untagContact(c, t)
    \/ \E S \in (SUBSET ContactIds) \ {{}} : deleteContacts(S)
    \/ ContactsSnapshot
    \/ \E t \in TagIds : deleteTag(t)
    \/ \E S \in SUBSET TagIds : deleteTags(S)
    \/ BatchCommit

(***************************************************************************)
(* Campaign store operations (firebase.ts) and the CampaignManager /       *)
(* CampaignForm handlers that call them.                                   *)
(***************************************************************************)
\* Largest recipient list a campaign is saved with.
MaxRecipients == 2

\* Dashboard sessions of the same user (browser tabs), each with its own
\* listenToAllCampaigns snapshot.
Sessions == {"A", "B"}

TerminalStatuses == {"completed", "failed", "cancelled"}

NoCampaign ==
    [status |-> "none", totalRecipients |-> 0, successCount |-> 0,
     failureCount |-> 0, currentIndex |-> 0]

InitCampaign ==
    /\ campaign = NoCampaign
    /\ uiStatus = [s \in Sessions |-> "none"]
    /\ lastWrite = [op |-> "none", from |-> "none"]

\* A write by session s: the store document changes, the writer's own listener
\* sees the write at once, the other sessions only at their next snapshot.
CampaignWrite(s, op, doc) ==
    /\ campaign' = doc
    /\ uiStatus' = [uiStatus EXCEPT ![s] = doc.status]
    /\ lastWrite' = [op |-> op, from |-> campaign.status]
    /\ UNCHANGED nonCampaignVars

\* CampaignForm.handleSave (new campaign) -> addCampaign: validateForm has
\* required at least one valid recipient.
addCampaign(s, n, scheduledAt) ==
    /\ campaign.status = "none"
    /\ CampaignWrite(s, "add",
         [status |-> IF scheduledAt THEN "scheduled" ELSE "pending",
          totalRecipients |-> n, successCount |-> 0, failureCount |-> 0,
          currentIndex |-> 0])

\* Row action Edit (shown for pending and paused) -> CampaignForm.handleSave
\* -> updateCampaign(uid, id, campaignData): the recipients and their total.
updateCampaign(s, n) ==
    /\ uiStatus[s] \in {"pending", "paused"}
    /\ campaign.status # "none"
    /\ CampaignWrite(s, "edit", [campaign EXCEPT !.totalRecipients = n])

\* Row action Start (shown for pending) -> startCampaign
startCampaign(s) ==
    /\ uiStatus[s] = "pending"
    /\ campaign.status # "none"
    /\ CampaignWrite(s, "start",
         [campaign EXCEPT !.status = "in-progress", !.currentIndex = 0])

\* Row action Pause (shown for in-progress) -> pauseCampaign
pauseCampaign(s) ==
    /\ uiStatus[s] = "in-progress"
    /\ campaign.status # "none"
    /\ CampaignWrite(s, "pause", [campaign EXCEPT !.status = "paused"])

\* Row action Resume (shown for paused) -> resumeCampaign
resumeCampaign(s) ==
    /\ uiStatus[s] = "paused"
    /\ campaign.status # "none"
    /\ CampaignWrite(s, "resume", [campaign EXCEPT !.status = "in-progress"])

\* updateCampaignProgress(uid, id, progress): the three counters as given. The
\* values are a run's counts over the campaign's recipients.
updateCampaignProgress(s, idx, succ, fail) ==
    /\ campaign.status # "none"
    /\ idx <= campaign.totalRecipients
    /\ succ + fail <= campaign.totalRecipients
    /\ CampaignWrite(s, "progress",
         [campaign EXCEPT !.currentIndex = idx, !.successCount = succ,
                          !.failureCount = fail])

\* completeCampaign(uid, id, finalStats): the status and final counts as given.
completeCampaign(s, succ, fail, finalStatus) ==
    /\ campaign.status # "none"
    /\ succ + fail <= campaign.totalRecipients
    /\ CampaignWrite(s, "complete",
         [campaign EXCEPT !.status = finalStatus, !.successCount = succ,
                          !.failureCount = fail])

\* listenToAllCampaigns -> setCampaigns(campaignData)
CampaignsSnapshot(s) ==
    /\ uiStatus[s] # campaign.status
    /\ uiStatus' = [uiStatus EXCEPT ![s] = campaign.status]
    /\ UNCHANGED <<campaign, lastWrite>>
    /\ UNCHANGED nonCampaignVars

NextCampaign ==
    \/ \E s \in Sessions, n \in 1..MaxRecipients, b \in BOOLEAN : addCampaign(s, n, b)
    \/ \E s \in Sessions, n \in 1..MaxRecipients : updateCampaign(s, n)
    \/ \E s \in Sessions : startCampaign(s)
    \/ \E s \in Sessions : pauseCampaign(s)
    \/ \E s \in Sessions : resumeCampaign(s)
    \/ \E s \in Sessions, i, a, b \in 0..MaxRecipients : updateCampaignProgress(s, i, a, b)
    \/ \E s \in Sessions, a, b \in 0..MaxRecipients, st \in TerminalStatuses :
         completeCampaign(s, a, b, st)
    \/ \E s \in Sessions : CampaignsSnapshot(s)

(***************************************************************************)
(* useExtension.checkExtensionStatus: the status prober. It runs on mount, *)
(* every 5 s, and from the Retry button, so invocations can overlap.       *)
(***************************************************************************)
\* Invocations of checkExtensionStatus that may be in progress at once.
MaxProbes == 2

ProbeIds == 1..MaxProbes

NotAvailable == [isInstalled |-> FALSE, isConnected |-> FALSE, version |-> "none"]

\* What the companion's sendResponse carries: a PONG with or without a version,
\* a message of another type, or nothing.
Replies ==
    { [type |-> "PONG", version |-> "1.0"], [type |-> "PONG", version |-> "none"],
      [type |-> "OTHER", version |-> "none"], [type |-> "NONE", version |-> "none"] }

FailureCauses == {"absent", "sendThrow", "lastError", "timeout"}

IdleProbe ==
    [pc |-> "idle", timer |-> FALSE, inflight |-> FALSE, cause |-> "none",
     outcome |-> "none", reply |-> "unset"]

InitProbe ==
    /\ runtime \in {"absent", "noSendMessage", "present"}
    /\ status = NotAvailable
    /\ probes = [i \in ProbeIds |-> IdleProbe]

\* isChromeAvailable() && isChromeMessagingAvailable()
isChromeMessagingAvailable == runtime = "present"

\* The async function settles: the awaited ping resolved (setStatus connected)
\* or the catch block ran (setStatus not available); it returns either way.
ProbeSettle(i, cause, newStatus, timerLeft, inflightLeft, reply) ==
    /\ status' = newStatus
    /\ probes' = [probes EXCEPT ![i] =
                    [pc |-> "done", timer |-> timerLeft, inflight |-> inflightLeft,
                     cause |-> cause, outcome |-> "returned", reply |-> reply]]

\* Runtime or messaging API absent: setStatus(not available); return.
ProbeNoRuntime(i) ==
    /\ probes[i].pc = "idle"
    /\ ~isChromeMessagingAvailable
    /\ ProbeSettle(i, "absent", NotAvailable, FALSE, FALSE, "unset")
    /\ UNCHANGED runtime
    /\ UNCHANGED nonProbeVars

\* The promise executor arms the 2 s timer and calls sendMessage(PING).
ProbeSendPing(i) ==
    /\ probes[i].pc = "idle"
    /\ isChromeMessagingAvailable
    /\ probes' = [probes EXCEPT ![i] =
                    [pc |-> "awaiting", timer |-> TRUE, inflight |-> TRUE,
                     cause |-> "none", outcome |-> "none", reply |-> "unset"]]
    /\ UNCHANGED <<runtime, status>>
    /\ UNCHANGED nonProbeVars

\* sendMessage throws inside the executor: the promise rejects, the catch block
\* runs; the timer armed before the call stays armed.
ProbeSendThrows(i) ==
    /\ probes[i].pc = "idle"
    /\ isChromeMessagingAvailable
    /\ ProbeSettle(i, "sendThrow", NotAvailable, TRUE, FALSE, "unset")
    /\ UNCHANGED runtime
    /\ UNCHANGED nonProbeVars

\* The sendMessage callback runs without lastError: clearTimeout, resolve. Any
\* reply counts; a settled promise ignores it.
ProbeReply(i, response) ==
    /\ probes[i].inflight
    /\ IF probes[i].pc = "awaiting"
       THEN ProbeSettle(i, "reply",
              [isInstalled |-> TRUE, isConnected |-> TRUE, version |-> response.version],
              FALSE, FALSE, response.type)
       ELSE /\ probes' = [probes EXCEPT ![i].inflight = FALSE, ![i].timer = FALSE]
            /\ UNCHANGED status
    /\ UNCHANGED runtime
    /\ UNCHANGED nonProbeVars

\* The callback runs with chrome.runtime.lastError set: clearTimeout, reject.
ProbeLastError(i) ==
    /\ probes[i].inflight
    /\ IF probes[i].pc = "awaiting"
       THEN ProbeSettle(i, "lastError", NotAvailable, FALSE, FALSE, "unset")
       ELSE /\ probes' = [probes EXCEPT ![i].inflight = FALSE, ![i].timer = FALSE]
            /\ UNCHANGED status
    /\ UNCHANGED runtime
    /\ UNCHANGED nonProbeVars

\* A plausible slip: the ping awaited outside the try block, so the timeout's
\* rejection leaves the function as an exception and no status is set.
ProbeTimeout_Uncaught(i) ==
    /\ probes[i].timer
    /\ probes' = [probes EXCEPT ![i] =
                    IF @.pc = "awaiting"
                    THEN [@ EXCEPT !.pc = "done", !.timer = FALSE, !.cause = "timeout",
                                   !.outcome = "threw"]
                    ELSE [@ EXCEPT !.timer = FALSE]]
    /\ UNCHANGED <<runtime, status>>
    /\ UNCHANGED nonProbeVars

\* The 2 s timer fires: reject(new Error('Extension timeout')) -> catch block.
ProbeTimeout(i) ==
    /\ probes[i].timer
    /\ IF probes[i].pc = "awaiting"
       THEN ProbeSettle(i, "timeout", NotAvailable, FALSE, probes[i].inflight, "unset")
       ELSE /\ probes' = [probes EXCEPT ![i].timer = FALSE]
            /\ UNCHANGED status
    /\ UNCHANGED runtime
    /\ UNCHANGED nonProbeVars

\* The next interval tick or Retry click starts a fresh invocation.
ProbeAgain(i) ==
    /\ probes[i].pc = "done"
    /\ ~probes[i].timer
    /\ ~probes[i].inflight
    /\ probes' = [probes EXCEPT ![i] = IdleProbe]
    /\ UNCHANGED <<runtime, status>>
    /\ UNCHANGED nonProbeVars

NextProbe ==
    \/ \E i \in ProbeIds : ProbeNoRuntime(i)
    \/ \E i \in ProbeIds : ProbeSendPing(i)
    \/ \E i \in ProbeIds : ProbeSendThrows(i)
    \/ \E i \in ProbeIds, r \in Replies : ProbeReply(i, r)
    \/ \E i \in ProbeIds : ProbeLastError(i)
    \/ \E i \in ProbeIds : ProbeTimeout(i)
    \/ \E i \in ProbeIds : ProbeAgain(i)

(***************************************************************************)
(* The request/response exchanges with the companion: each wraps           *)
(* chrome.runtime.sendMessage in a promise, some with a setTimeout guard.  *)
(***************************************************************************)
\* Requests that may be outstanding at the same time.
MaxOutstanding == 2

RequestKinds ==
    { "PING",                        \* useExtension.checkExtensionStatus
      "BULK_SEND",                   \* useExtension.sendBulkCampaign
      "GET_FROM_EXTENSION",          \* extensionSyncService.getExtensionData
      "SYNC_CONTACTS_TO_EXTENSION",  \* extensionSyncService.syncContacts
      "SYNC_TAGS_TO_EXTENSION",      \* extensionSyncService.syncTags
      "SYNC_TEMPLATES_TO_EXTENSION", \* extensionSyncService.syncTemplates
      "GET_CONTACTS",                \* firebase.ts triggerExtensionCampaign
      "CAMPAIGN_BULK_SEND" }         \* firebase.ts triggerExtensionCampaign

\* The setTimeout each request's promise is created with, in ms; 0 for none.
TimeoutMs(kind) ==
    CASE kind = "PING" -> 2000
      [] kind = "BULK_SEND" -> 10000
      [] kind = "GET_FROM_EXTENSION" -> 5000
      [] OTHER -> 0

\* What the sendMessage callback does when chrome.runtime.lastError is set.
\* GET_CONTACTS does not look at lastError: resolve(response?.contacts || []).
OnLastError(kind) == IF kind = "GET_CONTACTS" THEN "resolved" ELSE "rejected"

IdleRequest == [state |-> "idle", timer |-> FALSE, inflight |-> FALSE]

InitRequests == requests = [k \in RequestKinds |-> IdleRequest]

Outstanding == {k \in RequestKinds : requests[k].state = "pending"}

\* new Promise(...): arm the timer if the code has one, call sendMessage.
\* triggerExtensionCampaign sends BULK_SEND only after GET_CONTACTS resolved.
SendRequest(kind) ==
    /\ requests[kind].state = "idle"
    /\ Cardinality(Outstanding) < MaxOutstanding
    /\ kind = "CAMPAIGN_BULK_SEND" => requests["GET_CONTACTS"].state = "resolved"
    /\ requests' = [requests EXCEPT ![kind] =
                      [state |-> "pending", timer |-> TimeoutMs(kind) > 0,
                       inflight |-> TRUE]]
    /\ UNCHANGED nonRequestVars

\* The companion answers: the callback runs without lastError and resolves
\* (or, for BULK_SEND, rejects on an error reply); a settled promise ignores it.
RequestReply(kind, settled) ==
    /\ requests[kind].inflight
    /\ settled = "rejected" => kind = "BULK_SEND"
    /\ requests' = [requests EXCEPT ![kind] =
                      [state |-> IF @.state = "pending" THEN settled ELSE @.state,
                       timer |-> FALSE, inflight |-> FALSE]]
    /\ UNCHANGED nonRequestVars

\* The transport fails: the callback runs with chrome.runtime.lastError set.
RequestLastError(kind) ==
    /\ requests[kind].inflight
    /\ requests' = [requests EXCEPT ![kind] =
                      [state |-> IF @.state = "pending" THEN OnLastError(kind) ELSE @.state,
                       timer |-> FALSE, inflight |-> FALSE]]
    /\ UNCHANGED nonRequestVars

\* The request's timer fires and rejects the promise.
RequestTimeout(kind) ==
    /\ requests[kind].timer
    /\ requests' = [requests EXCEPT ![kind] =
                      [state |-> IF @.state = "pending" THEN "rejected" ELSE @.state,
                       timer |-> FALSE, inflight |-> @.inflight]]
    /\ UNCHANGED nonRequestVars

\* The caller has consumed the settled promise; the kind can be requested again.
RequestDone(kind) ==
    /\ requests[kind].state \in {"resolved", "rejected"}
    /\ ~requests[kind].inflight
    /\ ~requests[kind].timer
    /\ requests' = [requests EXCEPT ![kind] = IdleRequest]
    /\ UNCHANGED nonRequestVars

NextRequests ==
    \/ \E k \in RequestKinds : SendRequest(k)
    \/ \E k \in RequestKinds, r \in {"resolved", "rejected"} : RequestReply(k, r)
    \/ \E k \in RequestKinds : RequestLastError(k)
    \/ \E k \in RequestKinds : RequestTimeout(k)
    \/ \E k \in RequestKinds : RequestDone(k)

(***************************************************************************)
(* Pushes of the local collections: the effects of AppStateProvider call   *)
(* syncWithExtension(kind, data) whenever contacts, tags or templates is   *)
(* set; it asks extensionSyncService whether the companion is connected    *)
(* and then calls syncContacts / syncTags / syncTemplates.                 *)
(***************************************************************************)
\* Changes of the local collections in one run.
MaxChanges == 2

Kinds == {"contacts", "tags", "templates"}
Items == {"x1", "x2"}
PushIds == 1..MaxChanges

SyncType(kind) ==
    CASE kind = "contacts" -> "SYNC_CONTACTS_TO_EXTENSION"
      [] kind = "tags" -> "SYNC_TAGS_TO_EXTENSION"
      [] kind = "templates" -> "SYNC_TEMPLATES_TO_EXTENSION"

\* The companion answers PING on chrome.runtime ("runtime"), is only seen
\* through its content script (DOM markers, window.postMessage), or is not there.
Reaches == {"none", "runtime", "contentScript"}

ReachPossible(r) == r = "runtime" => runtime = "present"

IdlePush == [pc |-> "idle", kind |-> "contacts", data |-> {}, result |-> "none"]

InitPush ==
    /\ collections = [k \in Kinds |-> {}]
    /\ reach = "none"
    /\ pushes = [i \in PushIds |-> IdlePush]
    /\ outbox = <<>>

\* extensionSyncService.isExtensionConnected(): false without chrome.runtime;
\* true on a PONG; on no sendMessage, a lastError or a timeout it falls back to
\* detectViaContentScript, which is true when the content script is in the page.
isExtensionConnected ==
    /\ runtime # "absent"
    /\ reach \in {"runtime", "contentScript"}

MessagesOf(i) == {n \in 1..Len(outbox) : outbox[n].push = i}

\* A collection is set (store snapshot or local edit); the effect on it runs
\* syncWithExtension(kind, data) with the new array, empty or not.
syncWithExtension(kind, data) ==
    /\ \E i \in PushIds :
         /\ pushes[i].pc = "idle"
         /\ \A j \in PushIds : j < i => pushes[j].pc # "idle"
         /\ pushes' = [pushes EXCEPT ![i] =
                         [pc |-> "check", kind |-> kind, data |-> data, result |-> "none"]]
    /\ collections' = [collections EXCEPT ![kind] = data]
    /\ UNCHANGED <<reach, outbox, nonPushVars>>

\* syncWithExtension: await isExtensionConnected(); else-branch logs and returns.
\* Mutation: a skipped push is kept and tried again instead of being dropped.
syncWithExtension_isConnected_Queued(i) ==
    /\ pushes[i].pc = "check"
    /\ pushes' = [pushes EXCEPT ![i] =
                    IF isExtensionConnected
                    THEN [@ EXCEPT !.pc = "sync"]
                    ELSE [@ EXCEPT !.result = "queued"]]
    /\ UNCHANGED <<collections, reach, outbox, nonPushVars>>

syncWithExtension_isConnected(i) ==
    /\ pushes[i].pc = "check"
    /\ pushes' = [pushes EXCEPT ![i] =
                    IF isExtensionConnected
                    THEN [@ EXCEPT !.pc = "sync"]
                    ELSE [@ EXCEPT !.pc = "done", !.result = "skipped"]]
    /\ UNCHANGED <<collections, reach, outbox, nonPushVars>>

\* syncContacts / syncTags / syncTemplates: return if not connected, return if
\* chrome.runtime.sendMessage does not exist, else send the whole array.
syncCollection(i) ==
    /\ pushes[i].pc = "sync"
    /\ IF ~isExtensionConnected
       THEN /\ pushes' = [pushes EXCEPT ![i] = [@ EXCEPT !.pc = "done", !.result = "skipped"]]
            /\ UNCHANGED outbox
       ELSE IF runtime # "present"
       THEN /\ pushes' = [pushes EXCEPT ![i] = [@ EXCEPT !.pc = "done", !.result = "noSendMessage"]]
            /\ UNCHANGED outbox
       ELSE /\ pushes' = [pushes EXCEPT ![i] = [@ EXCEPT !.pc = "awaitAck"]]
            /\ outbox' = Append(outbox, [push |-> i, type |-> SyncType(pushes[i].kind),
                                         payload |-> pushes[i].data])
    /\ UNCHANGED <<collections, reach, nonPushVars>>

\* The sendMessage callback without lastError: resolve().
syncCollection_resolve(i) ==
    /\ pushes[i].pc = "awaitAck"
    /\ reach = "runtime"
    /\ pushes' = [pushes EXCEPT ![i] = [@ EXCEPT !.pc = "done", !.result = "sent"]]
    /\ UNCHANGED <<collections, reach, outbox, nonPushVars>>

\* The sendMessage callback with lastError: reject, caught by syncWithExtension.
syncCollection_reject(i) ==
    /\ pushes[i].pc = "awaitAck"
    /\ reach # "runtime"
    /\ pushes' = [pushes EXCEPT ![i] = [@ EXCEPT !.pc = "done", !.result = "failed"]]
    /\ UNCHANGED <<collections, reach, outbox, nonPushVars>>

\* The companion is installed, removed, enabled or disabled.
CompanionChange(r) ==
    /\ r # reach
    /\ ReachPossible(r)
    /\ reach' = r
    /\ UNCHANGED <<collections, pushes, outbox, nonPushVars>>

NextPush ==
    \/ \E k \in Kinds, data \in SUBSET Items : syncWithExtension(k, data)
    \/ \E i \in PushIds : syncWithExtension_isConnected(i)
    \/ \E i \in PushIds : syncCollection(i)
    \/ \E i \in PushIds : syncCollection_resolve(i)
    \/ \E i \in PushIds : syncCollection_reject(i)
    \/ \E r \in Reaches : CompanionChange(r)

(***************************************************************************)
(* Change notifications from the companion: handleExtensionSync passes the *)
(* payload of SYNC_CONTACTS/TAGS/TEMPLATES_FROM_EXTENSION to               *)
(* sync*FromExtension, which reads the collection (getDocs), builds a      *)
(* batch of set-merge and delete writes and commits it.                    *)
(***************************************************************************)
\* Writes to the collections from outside the handler in one run.
MaxOtherWrites == 2

DocIds == {"d1", "d2"}

IdleSync == [pc |-> "idle", kind |-> "contacts", payload |-> {}, current |-> {}]

InitSync ==
    /\ store = [k \in Kinds |-> {"d1"}]
    /\ user = TRUE
    /\ sync = IdleSync
    /\ otherWrites = 0

\* handleExtensionSync -> handle*SyncFromExtension(payload): `if (!user) return`.
handleExtensionSync(kind, payload) ==
    /\ sync.pc = "idle"
    /\ sync' = [pc |-> IF user THEN "getDocs" ELSE "done",
                kind |-> kind, payload |-> payload, current |-> {}]
    /\ UNCHANGED <<store, user, otherWrites, nonSyncVars>>

\* const currentSnapshot = await getDocs(collectionRef)
syncFromExtension_getDocs ==
    /\ sync.pc = "getDocs"
    /\ sync' = [sync EXCEPT !.pc = "commit", !.current = store[sync.kind]]
    /\ UNCHANGED <<store, user, otherWrites, nonSyncVars>>

\* batch.set(ref, ..., {merge: true}) for each payload item, batch.delete(ref)
\* for each document read that is not in the payload, await batch.commit().
syncFromExtension_commit ==
    /\ sync.pc = "commit"
    /\ store' = [store EXCEPT ![sync.kind] =
                   (@ \cup sync.payload) \ (sync.current \ sync.payload)]
    /\ sync' = [sync EXCEPT !.pc = "done"]
    /\ UNCHANGED <<user, otherWrites, nonSyncVars>>

\* The handler returns.
handleExtensionSync_return ==
    /\ sync.pc = "done"
    /\ sync' = IdleSync
    /\ UNCHANGED <<store, user, otherWrites, nonSyncVars>>

\* addContact / addTag / addTemplate from the dashboard or another session.
OtherAdd(kind, id) ==
    /\ otherWrites < MaxOtherWrites
    /\ id \notin store[kind]
    /\ store' = [store EXCEPT ![kind] = @ \cup {id}]
    /\ otherWrites' = otherWrites + 1
    /\ UNCHANGED <<user, sync, nonSyncVars>>

\* deleteContacts / deleteTag / deleteTemplate from the dashboard or another session.
OtherDelete(kind, id) ==
    /\ otherWrites < MaxOtherWrites
    /\ id \in store[kind]
    /\ store' = [store EXCEPT ![kind] = @ \ {id}]
    /\ otherWrites' = otherWrites + 1
    /\ UNCHANGED <<user, sync, nonSyncVars>>

\* Sign-in / sign-out.
AuthChange ==
    /\ user' = ~user
    /\ UNCHANGED <<store, sync, otherWrites, nonSyncVars>>

NextSync ==
    \/ \E k \in Kinds, payload \in SUBSET DocIds : handleExtensionSync(k, payload)
    \/ syncFromExtension_getDocs
    \/ syncFromExtension_commit
    \/ handleExtensionSync_return
    \/ \E k \in Kinds, id \in DocIds : OtherAdd(k, id)
    \/ \E k \in Kinds, id \in DocIds : OtherDelete(k, id)
    \/ AuthChange

(***************************************************************************)
(* The bulk-send command of the hook.  use-extension.ts holds two versions *)
(* of sendBulkCampaign: one pings the companion first (3000 ms) and does   *)
(* not look at the recorded status, one relies on the recorded status.     *)
(* Both then send BULK_SEND under a 10000 ms timer.                        *)
(***************************************************************************)
Variants == {"realTimePing", "cachedStatus"}
PingReplies == {"PONG", "ok", "other"}
BulkReplies == {"started", "error", "null", "other"}

IdleBulk ==
    [pc |-> "idle", variant |-> "realTimePing", statusAtCall |-> FALSE,
     outcome |-> "none", cause |-> "none", bulkSent |-> FALSE, inflight |-> FALSE]

InitDispatch ==
    /\ bulk = IdleBulk
    /\ shouldPoll = FALSE

\* The promise of sendBulkCampaign settles.
BulkSettle(outcome, cause) ==
    [bulk EXCEPT !.pc = "done", !.outcome = outcome, !.cause = cause]

\* sendBulkCampaign(payload): the guard at its head, then the first message.
sendBulkCampaign(variant) ==
    /\ bulk.pc = "idle"
    /\ LET call == [bulk EXCEPT !.variant = variant, !.statusAtCall = status.isConnected]
       IN  bulk' =
             IF ~isChromeMessagingAvailable
             THEN [call EXCEPT !.pc = "done", !.outcome = "rejected", !.cause = "notAvailable"]
             ELSE IF variant = "realTimePing"
             THEN [call EXCEPT !.pc = "ping"]
             ELSE IF ~status.isInstalled
             THEN [call EXCEPT !.pc = "done", !.outcome = "rejected", !.cause = "notAvailable"]
             ELSE [call EXCEPT !.pc = "bulk", !.bulkSent = TRUE, !.inflight = TRUE]
    /\ UNCHANGED <<shouldPoll, nonDispatchVars>>

\* Real-time ping answered: PONG or status ok goes on to BULK_SEND,
\* anything else throws 'Extension not responding'.
BulkPingReply(response) ==
    /\ bulk.pc = "ping"
    /\ bulk' = IF response \in {"PONG", "ok"}
               THEN [bulk EXCEPT !.pc = "bulk", !.bulkSent = TRUE, !.inflight = TRUE]
               ELSE BulkSettle("rejected", "pingReply")
    /\ UNCHANGED <<shouldPoll, nonDispatchVars>>

\* Real-time ping: lastError in the callback resolves false.
BulkPingLastError ==
    /\ bulk.pc = "ping"
    /\ bulk' = BulkSettle("rejected", "pingLastError")
    /\ UNCHANGED <<shouldPoll, nonDispatchVars>>

\* Real-time ping: the 3000 ms timer resolves false.
BulkPingTimeout ==
    /\ bulk.pc = "ping"
    /\ bulk' = BulkSettle("rejected", "pingTimeout")
    /\ UNCHANGED <<shouldPoll, nonDispatchVars>>

\* The BULK_SEND callback without lastError.  A reply that comes after the
\* timer fired still runs the callback; the settled promise ignores it.
BulkReply(response) ==
    /\ bulk.inflight
    /\ bulk' = IF bulk.pc = "bulk"
               THEN [BulkSettle(IF response = "started" THEN "resolved" ELSE "rejected",
                                response) EXCEPT !.inflight = FALSE]
               ELSE [bulk EXCEPT !.inflight = FALSE]
    /\ shouldPoll' = IF response = "started" /\ bulk.variant = "realTimePing"
                     THEN TRUE ELSE shouldPoll
    /\ UNCHANGED nonDispatchVars

\* The BULK_SEND callback with lastError.
BulkLastError ==
    /\ bulk.inflight
    /\ bulk' = IF bulk.pc = "bulk"
               THEN [BulkSettle("rejected", "lastError") EXCEPT !.inflight = FALSE]
               ELSE [bulk EXCEPT !.inflight = FALSE]
    /\ UNCHANGED <<shouldPoll, nonDispatchVars>>

\* The 10000 ms timer of BULK_SEND fires.
BulkTimeout ==
    /\ bulk.pc = "bulk"
    /\ bulk' = BulkSettle("rejected", "timeout")
    /\ UNCHANGED <<shouldPoll, nonDispatchVars>>

\* handleBulkSend has shown its toast; the command can be given again.
BulkAgain ==
    /\ bulk.pc = "done"
    /\ ~bulk.inflight
    /\ bulk' = IdleBulk
    /\ UNCHANGED <<shouldPoll, nonDispatchVars>>

NextDispatch ==
    \/ \E v \in Variants : sendBulkCampaign(v)
    \/ \E r \in PingReplies : BulkPingReply(r)
    \/ BulkPingLastError
    \/ BulkPingTimeout
    \/ \E r \in BulkReplies : BulkReply(r)
    \/ BulkLastError
    \/ BulkTimeout
    \/ BulkAgain
    \/ NextProbe

(***************************************************************************)
(* Starting a campaign from the campaign list: handleStartCampaign awaits  *)
(* startCampaign, which writes the store record and then returns           *)
(* triggerExtensionCampaign: getDoc, GET_CONTACTS and BULK_SEND, each      *)
(* sendMessage wrapped in a promise without a timer.                       *)
(***************************************************************************)
IdleStart ==
    [pc |-> "idle", written |-> FALSE, bulkSent |-> FALSE,
     outcome |-> "none", cause |-> "none", toast |-> "none"]

\* The ways the dispatch step fails after the store write.
DispatchFailures == {"notFound", "noValidContacts", "sendThrow", "lastError"}

InitStart == start = IdleStart

\* startCampaign's promise settles and handleStartCampaign shows its toast:
\* 'Campaign Started' after a resolve, 'Error' after a reject.
StartSettle(outcome, cause) ==
    [start EXCEPT !.pc = "done", !.outcome = outcome, !.cause = cause,
                  !.toast = IF outcome = "resolved" THEN "success" ELSE "error"]

\* Row action Start (shown for pending) -> handleStartCampaign -> startCampaign:
\* await updateDoc(status in-progress, currentIndex 0); updateDoc fails on a
\* document that does not exist.
handleStartCampaign(s) ==
    /\ start.pc = "idle"
    /\ uiStatus[s] = "pending"
    /\ IF campaign.status = "none"
       THEN /\ start' = StartSettle("rejected", "updateFailed")
            /\ UNCHANGED campaignVars
       ELSE /\ campaign' = [campaign EXCEPT !.status = "in-progress", !.currentIndex = 0]
            /\ uiStatus' = [uiStatus EXCEPT ![s] = "in-progress"]
            /\ lastWrite' = [op |-> "start", from |-> campaign.status]
            /\ start' = [start EXCEPT !.pc = "trigger", !.written = TRUE]
    /\ UNCHANGED nonCampaignStartVars

\* triggerExtensionCampaign: without chrome.runtime it warns and returns.
triggerExtensionCampaign ==
    /\ start.pc = "trigger"
    /\ start' = IF runtime = "absent"
                THEN StartSettle("resolved", "noRuntime")
                ELSE [start EXCEPT !.pc = "getDoc"]
    /\ UNCHANGED nonStartVars

\* await getDoc(campaignRef): 'Campaign not found', else GET_CONTACTS is sent
\* (the call throws when chrome.runtime has no sendMessage).
triggerGetDoc ==
    /\ start.pc = "getDoc"
    /\ start' = IF campaign.status = "none"
                THEN StartSettle("rejected", "notFound")
                ELSE IF runtime # "present"
                THEN StartSettle("rejected", "sendThrow")
                ELSE [start EXCEPT !.pc = "getContacts"]
    /\ UNCHANGED nonStartVars

\* The GET_CONTACTS callback: resolve(response?.contacts || []), lastError not
\* looked at; then the filter for this campaign's recipients. With no valid
\* contact 'No valid contacts found for campaign', else BULK_SEND is sent.
triggerGetContactsReply_Compensating(valid) ==
    /\ start.pc = "getContacts"
    /\ start' = IF valid
                THEN [start EXCEPT !.pc = "bulk", !.bulkSent = TRUE]
                ELSE StartSettle("rejected", "noValidContacts")
    /\ campaign' = IF valid THEN campaign ELSE [campaign EXCEPT !.status = "pending"]
    /\ UNCHANGED <<uiStatus, lastWrite, nonCampaignStartVars>>

triggerGetContactsReply(valid) ==
    /\ start.pc = "getContacts"
    /\ start' = IF valid
                THEN [start EXCEPT !.pc = "bulk", !.bulkSent = TRUE]
                ELSE StartSettle("rejected", "noValidContacts")
    /\ UNCHANGED nonStartVars

\* The BULK_SEND callback without lastError: resolve(response), whatever it is.
triggerBulkReply(response) ==
    /\ start.pc = "bulk"
    /\ start' = StartSettle("resolved", response)
    /\ UNCHANGED nonStartVars

\* The BULK_SEND callback with lastError: reject(lastError).
triggerBulkLastError ==
    /\ start.pc = "bulk"
    /\ start' = StartSettle("rejected", "lastError")
    /\ UNCHANGED nonStartVars

\* Row action Delete -> deleteCampaign (any session).
deleteCampaign(s) ==
    /\ campaign.status # "none"
    /\ CampaignWrite(s, "delete", NoCampaign)

NextStart ==
    \/ \E s \in Sessions, n \in 1..MaxRecipients, b \in BOOLEAN : addCampaign(s, n, b)
    \/ \E s \in Sessions : CampaignsSnapshot(s)
    \/ \E s \in Sessions : deleteCampaign(s)
    \/ \E s \in Sessions : handleStartCampaign(s)
    \/ triggerExtensionCampaign
    \/ triggerGetDoc
    \/ \E valid \in BOOLEAN : triggerGetContactsReply(valid)
    \/ \E r \in BulkReplies : triggerBulkReply(r)
    \/ triggerBulkLastError

(***************************************************************************)
(* AppStateProvider keeps tags and contacts from the store subscriptions;  *)
(* an effect with dependencies [contacts, tags.length] recomputes every    *)
(* tag's contactCount.  Tag documents carry no contactCount of their own.  *)
(***************************************************************************)
\* The contactCount of a tag as read from the store: the documents have none
\* (TagData omits it), which is no count at all.
NoCount == -1

InitCounts ==
    /\ appTags = << >>
    /\ appContacts = << >>

\* contactCounts.get(tag.id) || 0 over the contacts given
ContactCount(tagId, contacts) ==
    Cardinality({c \in DOMAIN contacts : tagId \in contacts[c]})

\* The effect body: skipped when both arrays are empty, else
\* setTags(prevTags => prevTags.map(tag => ({...tag, contactCount})))
ContactCountEffect(tagsNow, contacts) ==
    IF DOMAIN contacts # {} \/ DOMAIN tagsNow # {}
    THEN [t \in DOMAIN tagsNow |-> ContactCount(t, contacts)]
    ELSE tagsNow

\* onSnapshot(tagsQuery) -> setTags(tagsData); the effect runs after the render
\* only if tags.length differs from that of the render before.
TagsSnapshot(ids) ==
    /\ LET tagsData == [t \in ids |-> NoCount]
       IN  appTags' = IF Cardinality(ids) # Cardinality(DOMAIN appTags)
                      THEN ContactCountEffect(tagsData, appContacts)
                      ELSE tagsData
    /\ UNCHANGED <<appContacts, nonCountsVars>>

\* onSnapshot(contactsQuery) -> setContacts(contactsData): a new array, so the
\* effect runs after the render.
ContactsUpdate(contactsData) ==
    /\ appContacts' = contactsData
    /\ appTags' = ContactCountEffect(appTags, contactsData)
    /\ UNCHANGED nonCountsVars

ContactLists ==
    UNION {[ids -> SUBSET TagIds] : ids \in SUBSET ContactIds}

NextCounts ==
    \/ \E ids \in SUBSET TagIds : TagsSnapshot(ids)
    \/ \E contactsData \in ContactLists : ContactsUpdate(contactsData)

(***************************************************************************)
(* Progress of a bulk send.  The companion posts BULK_SEND_STARTED,        *)
(* BULK_SEND_PROGRESS_UPDATE and BULK_SEND_COMPLETE to the page            *)
(* (AppStateProvider, extensionBulkSendProgress) and answers               *)
(* GET_BULK_PROGRESS polls of the hook (bulkSendProgress).  SimpleBulkSend *)
(* shows extensionBulkSendProgress || bulkSendProgress and notifies the    *)
(* user when the progress it saw last was active and the new one is not.   *)
(***************************************************************************)
\* Recipients of the companion's job.
MaxSent == 1

NullProgress ==
    [isNull |-> TRUE, isActive |-> FALSE, currentIndex |-> 0,
     successCount |-> 0, failureCount |-> 0]

Snapshot(active, idx, succ) ==
    [isNull |-> FALSE, isActive |-> active, currentIndex |-> idx,
     successCount |-> succ, failureCount |-> idx - succ]

IdleRun == [phase |-> "idle", idx |-> 0, succ |-> 0, notifies |-> FALSE]

RunSnapshot == Snapshot(run.phase = "active", run.idx, run.succ)

InitProgress ==
    /\ run = IdleRun
    /\ pushQueue = <<>>
    /\ pollReplies = {}
    /\ extensionBulkSendProgress = NullProgress
    /\ bulkSendProgress = NullProgress
    /\ lastProgressState = NullProgress
    /\ completions = 0
    /\ pollInterval = FALSE
    /\ probeInterval = TRUE
    /\ mounted = TRUE
    /\ extClearTimer = FALSE
    /\ hookClearTimer = "off"
    /\ cancel = "idle"

\* const mergedBulkSendProgress = extensionBulkSendProgress || bulkSendProgress
mergedBulkSendProgress(ext, hook) == IF ~ext.isNull THEN ext ELSE hook

\* lastProgressState?.isActive && (!merged || !merged.isActive)
JustCompleted(last, merged) ==
    /\ ~last.isNull /\ last.isActive
    /\ merged.isNull \/ ~merged.isActive

\* The completion effect of SimpleBulkSend after a render with the new
\* progress values: the toast if the bulk send just completed, then
\* setLastProgressState(mergedBulkSendProgress).
CompletionEffect(ext, hook) ==
    /\ completions' =
         IF mounted /\ JustCompleted(lastProgressState, mergedBulkSendProgress(ext, hook))
         THEN completions + 1 ELSE completions
    /\ lastProgressState' =
         IF mounted THEN mergedBulkSendProgress(ext, hook) ELSE lastProgressState

\* The companion accepts a job.  It was started by this hook's sendBulkCampaign
\* (the 'started' reply sets shouldPoll and the effect starts pollProgress) or
\* from elsewhere; it posts notifications to the page or not.
CompanionStart(byHook, notifies) ==
    /\ run.phase = "idle"
    /\ byHook \/ notifies
    /\ byHook => (mounted /\ isChromeMessagingAvailable)
    /\ run' = [phase |-> "active", idx |-> 0, succ |-> 0, notifies |-> notifies]
    /\ pushQueue' = IF notifies
                    THEN Append(pushQueue, [type |-> "BULK_SEND_STARTED",
                                            progress |-> Snapshot(TRUE, 0, 0)])
                    ELSE pushQueue
    /\ shouldPoll' = (shouldPoll \/ byHook)
    /\ pollInterval' = (pollInterval \/ byHook)
    /\ UNCHANGED <<pollReplies, extensionBulkSendProgress, bulkSendProgress,
                   lastProgressState, completions, probeInterval, mounted,
                   extClearTimer, hookClearTimer, cancel>>
    /\ UNCHANGED <<bulk, nonDispatchProgressVars>>

\* The companion has handled one more recipient.
CompanionStep(ok) ==
    /\ run.phase = "active"
    /\ run.idx < MaxSent
    /\ run' = [run EXCEPT !.idx = @ + 1, !.succ = IF ok THEN @ + 1 ELSE @]
    /\ pushQueue' = IF run.notifies
                    THEN Append(pushQueue,
                           [type |-> "BULK_SEND_PROGRESS_UPDATE",
                            progress |-> Snapshot(TRUE, run.idx + 1,
                                                  IF ok THEN run.succ + 1 ELSE run.succ)])
                    ELSE pushQueue
    /\ UNCHANGED <<pollReplies, extensionBulkSendProgress, bulkSendProgress,
                   lastProgressState, completions, pollInterval, probeInterval,
                   mounted, extClearTimer, hookClearTimer, cancel, nonProgressVars>>

\* The companion's job ends; with notifications on it posts BULK_SEND_COMPLETE,
\* after a last progress update with isActive false or without one.
CompanionFinish(lastUpdate) ==
    /\ run.phase = "active"
    /\ run' = [run EXCEPT !.phase = "finished"]
    /\ pushQueue' =
         IF ~run.notifies THEN pushQueue
         ELSE (IF lastUpdate
               THEN Append(pushQueue, [type |-> "BULK_SEND_PROGRESS_UPDATE",
                                       progress |-> Snapshot(FALSE, run.idx, run.succ)])
               ELSE pushQueue)
              \o <<[type |-> "BULK_SEND_COMPLETE", progress |-> NullProgress]>>
    /\ UNCHANGED <<pollReplies, extensionBulkSendProgress, bulkSendProgress,
                   lastProgressState, completions, pollInterval, probeInterval,
                   mounted, extClearTimer, hookClearTimer, cancel, nonProgressVars>>

\* handleExtensionSync takes the next notification: handleBulkSendStarted,
\* handleBulkSendProgressUpdate or handleBulkSendComplete (3000 ms timer).
PushDeliver ==
    /\ pushQueue # <<>>
    /\ LET msg == Head(pushQueue)
           ext == IF msg.type = "BULK_SEND_COMPLETE"
                  THEN extensionBulkSendProgress ELSE msg.progress
       IN  /\ extensionBulkSendProgress' = ext
           /\ extClearTimer' = (extClearTimer \/ msg.type = "BULK_SEND_COMPLETE")
           /\ CompletionEffect(ext, bulkSendProgress)
    /\ pushQueue' = Tail(pushQueue)
    /\ UNCHANGED <<run, pollReplies, bulkSendProgress, pollInterval, probeInterval,
                   mounted, hookClearTimer, cancel, nonProgressVars>>

\* The timer of handleBulkSendComplete: setExtensionBulkSendProgress(null)
ExtClearTimeout ==
    /\ extClearTimer
    /\ extClearTimer' = FALSE
    /\ extensionBulkSendProgress' = NullProgress
    /\ CompletionEffect(NullProgress, bulkSendProgress)
    /\ UNCHANGED <<run, pushQueue, pollReplies, bulkSendProgress, pollInterval,
                   probeInterval, mounted, hookClearTimer, cancel, nonProgressVars>>

\* The interval of pollProgress fires: GET_BULK_PROGRESS is sent and the
\* companion answers with its progress of that moment.
PollTick ==
    /\ pollInterval
    /\ run.phase # "idle"
    /\ pollReplies' = pollReplies \cup {RunSnapshot}
    /\ UNCHANGED <<run, pushQueue, extensionBulkSendProgress, bulkSendProgress,
                   lastProgressState, completions, pollInterval, probeInterval,
                   mounted, extClearTimer, hookClearTimer, cancel, nonProgressVars>>

\* The GET_BULK_PROGRESS callback: setBulkSendProgress(response.progress); on
\* isActive false clearInterval, setShouldPoll(false) and a 3000 ms timer.
\* State updates of an unmounted hook are dropped.
PollDeliver(r) ==
    /\ r \in pollReplies
    /\ pollReplies' = pollReplies \ {r}
    /\ IF mounted
       THEN /\ bulkSendProgress' = r
            /\ pollInterval' = (pollInterval /\ r.isActive)
            /\ shouldPoll' = (shouldPoll /\ r.isActive)
            /\ hookClearTimer' = IF r.isActive THEN hookClearTimer ELSE "armed"
            /\ CompletionEffect(extensionBulkSendProgress, r)
       ELSE UNCHANGED <<bulkSendProgress, pollInterval, shouldPoll, hookClearTimer,
                        lastProgressState, completions>>
    /\ UNCHANGED <<run, pushQueue, extensionBulkSendProgress, probeInterval, mounted,
                   extClearTimer, cancel, bulk, nonDispatchProgressVars>>

\* The poller's timer: setBulkSendProgress(null)
HookClearTimeout ==
    /\ hookClearTimer = "armed"
    /\ hookClearTimer' = "fired"
    /\ IF mounted
       THEN /\ bulkSendProgress' = NullProgress
            /\ CompletionEffect(extensionBulkSendProgress, NullProgress)
       ELSE UNCHANGED <<bulkSendProgress, lastProgressState, completions>>
    /\ UNCHANGED <<run, pushQueue, pollReplies, extensionBulkSendProgress, pollInterval,
                   probeInterval, mounted, extClearTimer, cancel, nonProgressVars>>

\* Cancel button (shown while progress is shown) -> handleCancel ->
\* cancelBulkSend: CANCEL_BULK_SEND under a 5000 ms timer.
handleCancel ==
    /\ cancel = "idle"
    /\ mounted
    /\ ~mergedBulkSendProgress(extensionBulkSendProgress, bulkSendProgress).isNull
    /\ cancel' = IF isChromeMessagingAvailable THEN "sent" ELSE "failed"
    /\ UNCHANGED <<run, pushQueue, pollReplies, extensionBulkSendProgress,
                   bulkSendProgress, lastProgressState, completions, pollInterval,
                   probeInterval, mounted, extClearTimer, hookClearTimer,
                   nonProgressVars>>

\* The CANCEL_BULK_SEND callback: on cancelled setShouldPoll(false) and
\* setBulkSendProgress(null); the companion has halted its job.
cancelBulkSend_reply(cancelled) ==
    /\ cancel = "sent"
    /\ cancelled => run.phase = "active"
    /\ cancel' = IF cancelled THEN "acked" ELSE "failed"
    /\ run' = IF cancelled THEN [run EXCEPT !.phase = "finished"] ELSE run
    /\ IF cancelled /\ mounted
       THEN /\ bulkSendProgress' = NullProgress
            /\ shouldPoll' = FALSE
            /\ pollInterval' = FALSE
            /\ CompletionEffect(extensionBulkSendProgress, NullProgress)
       ELSE UNCHANGED <<bulkSendProgress, shouldPoll, pollInterval,
                        lastProgressState, completions>>
    /\ UNCHANGED <<pushQueue, pollReplies, extensionBulkSendProgress, probeInterval,
                   mounted, extClearTimer, hookClearTimer, bulk,
                   nonDispatchProgressVars>>

\* The 5000 ms timer of cancelBulkSend, or lastError: resolve(false).
cancelBulkSend_timeout ==
    /\ cancel = "sent"
    /\ cancel' = "timedOut"
    /\ UNCHANGED <<run, pushQueue, pollReplies, extensionBulkSendProgress,
                   bulkSendProgress, lastProgressState, completions, pollInterval,
                   probeInterval, mounted, extClearTimer, hookClearTimer,
                   nonProgressVars>>

\* SimpleBulkSend is unmounted: the cleanups of the polling effect and of the
\* probe effect clear their intervals.
Unmount_KeepsIntervals ==
    /\ mounted
    /\ mounted' = FALSE
    /\ UNCHANGED <<run, pushQueue, pollReplies, extensionBulkSendProgress,
                   bulkSendProgress, lastProgressState, completions, pollInterval,
                   probeInterval, extClearTimer, hookClearTimer, cancel,
                   nonProgressVars>>

Unmount ==
    /\ mounted
    /\ mounted' = FALSE
    /\ pollInterval' = FALSE
    /\ probeInterval' = FALSE
    /\ UNCHANGED <<run, pushQueue, pollReplies, extensionBulkSendProgress,
                   bulkSendProgress, lastProgressState, completions, extClearTimer,
                   hookClearTimer, cancel, nonProgressVars>>

\* The steps of the two progress paths, of the cancel and of the unmount.
ProgressSteps ==
    \/ \E ok \in BOOLEAN : CompanionStep(ok)
    \/ \E lastUpdate \in BOOLEAN : CompanionFinish(lastUpdate)
    \/ PushDeliver
    \/ ExtClearTimeout
    \/ PollTick
    \/ \E r \in pollReplies : PollDeliver(r)
    \/ HookClearTimeout
    \/ handleCancel
    \/ \E cancelled \in BOOLEAN : cancelBulkSend_reply(cancelled)
    \/ cancelBulkSend_timeout
    \/ Unmount

NextProgress ==
    \/ \E byHook, notifies \in BOOLEAN : CompanionStart(byHook, notifies)
    \/ ProgressSteps

(***************************************************************************)
(* The campaign page (BulkCampaignContent) reads bulkSendProgress from its *)
(* own useExtension instance, which sets it in the runtime.onMessage       *)
(* listener, and shows a toast from an effect on [bulkSendProgress].       *)
(***************************************************************************)
\* Toasts kept by the model.
MaxToasts == 2

PageSnapshots ==
    {Snapshot(a, i, s) : a \in BOOLEAN, i \in 0..MaxSent, s \in 0..MaxSent}

InitPage ==
    /\ pageProgress = NullProgress
    /\ pageToasts = <<>>

\* The effect 'Monitor extension progress' after a render with progress p
ProgressToast(p) ==
    IF p.isNull THEN pageToasts
    ELSE IF p.isActive THEN Append(pageToasts, "Campaign Running")
    ELSE IF p.successCount > 0 THEN Append(pageToasts, "Campaign Complete")
    ELSE pageToasts

\* The listener is registered while status.isInstalled and messaging is
\* available.  BULK_PROGRESS_UPDATE -> setBulkSendProgress(message.progress)
handleMessage_ProgressUpdate(p) ==
    /\ status.isInstalled /\ isChromeMessagingAvailable
    /\ Len(pageToasts) < MaxToasts
    /\ p.successCount <= p.currentIndex
    /\ pageProgress' = p
    /\ pageToasts' = ProgressToast(p)
    /\ UNCHANGED nonPageVars

\* BULK_SEND_COMPLETE -> setBulkSendProgress(null)
handleMessage_SendComplete ==
    /\ status.isInstalled /\ isChromeMessagingAvailable
    /\ ~pageProgress.isNull
    /\ pageProgress' = NullProgress
    /\ pageToasts' = ProgressToast(NullProgress)
    /\ UNCHANGED nonPageVars

NextPage ==
    \/ \E p \in PageSnapshots : handleMessage_ProgressUpdate(p)
    \/ handleMessage_SendComplete
    \/ NextProbe

(***************************************************************************)
(* The campaign document with all the fields the store functions write.    *)
(* updateDoc replaces the fields named in its argument and keeps the rest; *)
(* every function may be called on an existing document, by any caller.    *)
(***************************************************************************)
\* Entries the error log is followed up to.
MaxErrors == 2

NoDoc ==
    [exists |-> FALSE, status |-> "none", totalRecipients |-> 0,
     recipientContactIds |-> {}, successCount |-> 0, failureCount |-> 0,
     currentIndex |-> 0, errors |-> <<>>, createdAt |-> FALSE,
     startedAt |-> FALSE, completedAt |-> FALSE, updatedAt |-> FALSE]

InitDoc ==
    /\ campaignDoc = NoDoc
    /\ docOp = "none"

\* arrayUnion(entry) on a stored array: the entry is added at the end unless an
\* equal one is in the array already.
arrayUnion(array, entry) ==
    IF \E i \in 1..Len(array) : array[i] = entry THEN array ELSE Append(array, entry)

\* addCampaign: setDoc of a new document
addCampaign_setDoc(n, scheduledAt) ==
    /\ ~campaignDoc.exists
    /\ campaignDoc' =
         [exists |-> TRUE, status |-> IF scheduledAt THEN "scheduled" ELSE "pending",
          totalRecipients |-> n, recipientContactIds |-> 1..n, successCount |-> 0,
          failureCount |-> 0, currentIndex |-> 0, errors |-> <<>>,
          createdAt |-> TRUE, startedAt |-> FALSE, completedAt |-> FALSE,
          updatedAt |-> FALSE]
    /\ docOp' = "addCampaign"
    /\ UNCHANGED nonDocVars

\* updateCampaign(uid, id, campaignData): the form's fields and updatedAt
updateCampaign_updateDoc(n) ==
    /\ campaignDoc.exists
    /\ campaignDoc' = [campaignDoc EXCEPT !.totalRecipients = n,
                                          !.recipientContactIds = 1..n,
                                          !.updatedAt = TRUE]
    /\ docOp' = "updateCampaign"
    /\ UNCHANGED nonDocVars

\* startCampaign: updateDoc {status, startedAt, currentIndex}
startCampaign_updateDoc ==
    /\ campaignDoc.exists
    /\ campaignDoc' = [campaignDoc EXCEPT !.status = "in-progress",
                                          !.startedAt = TRUE, !.currentIndex = 0]
    /\ docOp' = "startCampaign"
    /\ UNCHANGED nonDocVars

\* pauseCampaign: updateDoc {status}
pauseCampaign_updateDoc ==
    /\ campaignDoc.exists
    /\ campaignDoc' = [campaignDoc EXCEPT !.status = "paused"]
    /\ docOp' = "pauseCampaign"
    /\ UNCHANGED nonDocVars

\* resumeCampaign: updateDoc {status}
resumeCampaign_updateDoc ==
    /\ campaignDoc.exists
    /\ campaignDoc' = [campaignDoc EXCEPT !.status = "in-progress"]
    /\ docOp' = "resumeCampaign"
    /\ UNCHANGED nonDocVars

\* completeCampaign: updateDoc {status, successCount, failureCount, completedAt}
completeCampaign_updateDoc(succ, fail, finalStatus) ==
    /\ campaignDoc.exists
    /\ succ + fail <= campaignDoc.totalRecipients
    /\ campaignDoc' = [campaignDoc EXCEPT !.status = finalStatus,
                                          !.successCount = succ,
                                          !.failureCount = fail,
                                          !.completedAt = TRUE]
    /\ docOp' = "completeCampaign"
    /\ UNCHANGED nonDocVars

\* Update data that sets the errors field to the new entry alone (not in the
\* code).
ProgressUpdateData_Overwrites(idx, succ, fail, newError) ==
    [campaignDoc EXCEPT
       !.currentIndex = idx, !.successCount = succ, !.failureCount = fail,
       !.errors = IF ~newError THEN @
                  ELSE <<[contactId |-> "c1", timestamp |-> Len(@) + 1]>>]

\* What updateCampaignProgress hands to updateDoc: the three counters, and
\* errors: arrayUnion(newError with its timestamp) if newError is given
\* (one failing contact stands for all).  The timestamp is the server's,
\* later than those of the entries stored before.
ProgressUpdateData(idx, succ, fail, newError) ==
    [campaignDoc EXCEPT
       !.currentIndex = idx, !.successCount = succ, !.failureCount = fail,
       !.errors = IF ~newError THEN @
                  ELSE arrayUnion(@, [contactId |-> "c1", timestamp |-> Len(@) + 1])]

\* A progress update that sets the status from the counters (not in the code).
updateCampaignProgress_InfersCompletion(idx, succ, fail, newError, refused) ==
    /\ campaignDoc.exists
    /\ idx <= campaignDoc.totalRecipients
    /\ succ + fail <= campaignDoc.totalRecipients
    /\ newError => Len(campaignDoc.errors) < MaxErrors
    /\ refused => newError
    /\ campaignDoc' =
         IF refused THEN campaignDoc
         ELSE [ProgressUpdateData(idx, succ, fail, newError) EXCEPT
                 !.status = IF succ + fail = campaignDoc.totalRecipients
                            THEN "completed" ELSE @]
    /\ docOp' = "updateCampaignProgress"
    /\ UNCHANGED nonDocVars

\* updateCampaignProgress: updateDoc(campaignRef, updateData).  With newError
\* the store may refuse the update (a server timestamp inside arrayUnion):
\* then nothing is written.
updateCampaignProgress_updateDoc(idx, succ, fail, newError, refused) ==
    /\ campaignDoc.exists
    /\ idx <= campaignDoc.totalRecipients
    /\ succ + fail <= campaignDoc.totalRecipients
    /\ newError => Len(campaignDoc.errors) < MaxErrors
    /\ refused => newError
    /\ campaignDoc' = IF refused THEN campaignDoc
                      ELSE ProgressUpdateData(idx, succ, fail, newError)
    /\ docOp' = "updateCampaignProgress"
    /\ UNCHANGED nonDocVars

NextDoc ==
    \/ \E n \in 1..MaxRecipients, b \in BOOLEAN : addCampaign_setDoc(n, b)
    \/ \E n \in 1..MaxRecipients : updateCampaign_updateDoc(n)
    \/ startCampaign_updateDoc
    \/ pauseCampaign_updateDoc
    \/ resumeCampaign_updateDoc
    \/ \E a, b \in 0..MaxRecipients, st \in TerminalStatuses :
         completeCampaign_updateDoc(a, b, st)
    \/ \E i, a, b \in 0..MaxRecipients, newError, refused \in BOOLEAN :
         updateCampaignProgress_updateDoc(i, a, b, newError, refused)

(***************************************************************************)
(* Who goes into the recipients of a BULK_SEND message: the simple form    *)
(* (SimpleBulkSend) sends its validRecipients through sendBulkCampaign;    *)
(* CampaignForm saves the ids of its validRecipients and                   *)
(* triggerExtensionCampaign filters the companion's contacts by them.      *)
(* One tag is selected in the forms; `tagged` says a contact carries it.   *)
(***************************************************************************)
\* Contacts in the collection.
MaxPeople == 2

PersonIds == 1..MaxPeople

\* A contact: whether it carries the selected tag, whether it has a userId,
\* and its source.
Persons ==
    [tagged : BOOLEAN, userId : BOOLEAN, source : {"messenger", "facebook_group"}]

InitRecipients ==
    /\ people = << >>
    /\ recipientContactIds = {}
    /\ bulkSend = [from |-> "none", recipients |-> {}]

\* SimpleBulkSend.validRecipients: the contacts with one of the selected tags
SimpleValidRecipients == {c \in DOMAIN people : people[c].tagged}

\* CampaignForm.validRecipients: recipientContacts with a userId that are not
\* group contacts
FormValidRecipients ==
    {c \in DOMAIN people :
       people[c].tagged /\ people[c].userId /\ people[c].source # "facebook_group"}

\* triggerExtensionCampaign: contacts.filter(recipientContactIds.includes(id)
\* && userId) over the contacts the companion returns
CampaignContacts(contacts) ==
    {c \in DOMAIN contacts : c \in recipientContactIds /\ contacts[c].userId}

\* The recipients of a message: id and userId of each contact sent
RecipientsOf(ids, contacts) == {[id |-> c, userId |-> contacts[c].userId] : c \in ids}

\* onSnapshot(contactsQuery) -> setContacts
PeopleSnapshot(ids, data) ==
    /\ people' = [c \in ids |-> data[c]]
    /\ UNCHANGED <<recipientContactIds, bulkSend, nonRecipientsVars>>

\* SimpleBulkSend.handleBulkSend: validateForm (a recipient is required), then
\* sendBulkCampaign({recipients: validRecipients.map(...)}), whose BULK_SEND
\* carries payload.recipients as given.
handleBulkSend ==
    /\ SimpleValidRecipients # {}
    /\ bulkSend' = [from |-> "simple",
                    recipients |-> RecipientsOf(SimpleValidRecipients, people)]
    /\ UNCHANGED <<people, recipientContactIds, nonRecipientsVars>>

\* CampaignForm.handleSave: validateForm (a valid recipient is required), then
\* recipientContactIds: validRecipients.map(c => c.id)
handleSave ==
    /\ FormValidRecipients # {}
    /\ recipientContactIds' = FormValidRecipients
    /\ UNCHANGED <<people, bulkSend, nonRecipientsVars>>

\* triggerExtensionCampaign: GET_CONTACTS answers with the companion's
\* contacts (what the web app pushed at some time), the filter, then BULK_SEND
\* unless no contact is left.
triggerExtensionCampaign_send(ids, data) ==
    /\ recipientContactIds # {}
    /\ LET contacts == [c \in ids |-> data[c]]
       IN  /\ CampaignContacts(contacts) # {}
           /\ bulkSend' = [from |-> "campaign",
                           recipients |-> RecipientsOf(CampaignContacts(contacts),
                                                       contacts)]
    /\ UNCHANGED <<people, recipientContactIds, nonRecipientsVars>>

NextRecipients ==
    \/ \E ids \in SUBSET PersonIds, data \in [PersonIds -> Persons] :
         PeopleSnapshot(ids, data)
    \/ handleBulkSend
    \/ handleSave
    \/ \E ids \in SUBSET PersonIds, data \in [PersonIds -> Persons] :
         triggerExtensionCampaign_send(ids, data)

(***************************************************************************)
(* AppStateProvider from its construction: the collections start as [],    *)
(* onAuthStateChanged sets the user, the subscription effect on [user]     *)
(* either subscribes to the user's store collections or empties the        *)
(* collections, and the push effect on [contacts] hands every new array to *)
(* syncWithExtension.  (Tags and templates go the same way as contacts.)   *)
(***************************************************************************)
\* Pushes followed.
MaxHanded == 4

InitProvider ==
    /\ provPc = "constructed"
    /\ provUser = "null"
    /\ provLoaded = FALSE
    /\ provContacts = {}
    /\ userStore = {}
    /\ handed = [n |-> 0, data |-> {}]

\* The push effect after a render with a new `contacts` array:
\* syncWithExtension('contacts', contacts)
PushEffect(times, contacts) == [n |-> handed.n + times, data |-> contacts]

\* The effects of the first render: the push effect runs with the initial [];
\* the subscription effect finds user null and does setContacts([]), a new
\* array, so the push effect runs once more.
MountEffects ==
    /\ provPc = "constructed"
    /\ provPc' = "running"
    /\ provContacts' = {}
    /\ handed' = PushEffect(2, {})
    /\ UNCHANGED <<provUser, provLoaded, userStore, nonProviderVars>>

\* onAuthStateChanged -> setUser(currentUser); the subscription effect runs
\* again: with a user it subscribes (the old contacts stay until a snapshot),
\* without one it does setContacts([]) and the push effect runs.
onAuthStateChanged(currentUser) ==
    /\ provPc = "running"
    /\ currentUser # provUser
    /\ provUser' = currentUser
    /\ provLoaded' = FALSE
    /\ IF currentUser = "null"
       THEN /\ handed.n < MaxHanded
            /\ provContacts' = {}
            /\ handed' = PushEffect(1, {})
       ELSE UNCHANGED <<provContacts, handed>>
    /\ UNCHANGED <<provPc, userStore, nonProviderVars>>

\* onSnapshot(contactsQuery): setContacts(contactsData); the push effect runs.
\* The listener fires once after subscribing and then when the data changes.
onSnapshot_contacts ==
    /\ provPc = "running"
    /\ provUser # "null"
    /\ ~provLoaded \/ provContacts # userStore
    /\ handed.n < MaxHanded
    /\ provLoaded' = TRUE
    /\ provContacts' = userStore
    /\ handed' = PushEffect(1, userStore)
    /\ UNCHANGED <<provPc, provUser, userStore, nonProviderVars>>

\* The user's contacts in the store change (this session, another one, or
\* the companion's sync).
StoreChange(items) ==
    /\ items # userStore
    /\ userStore' = items
    /\ UNCHANGED <<provPc, provUser, provLoaded, provContacts, handed, nonProviderVars>>

NextProvider ==
    \/ MountEffects
    \/ \E u \in {"null", "u1"} : onAuthStateChanged(u)
    \/ onSnapshot_contacts
    \/ \E items \in SUBSET Items : StoreChange(items)

Init == InitTags /\ InitCampaign /\ InitProbe /\ InitRequests /\ InitPush /\ InitSync /\ InitDispatch /\ InitStart /\ InitCounts /\ InitProgress /\ InitPage /\ InitDoc /\ InitRecipients /\ InitProvider

SpecTags == Init /\ [][NextTags]_vars

SpecCampaign == Init /\ [][NextCampaign]_vars

SpecProbe == Init /\ [][NextProbe]_vars

SpecRequests == Init /\ [][NextRequests]_vars

SpecPush == Init /\ [][NextPush]_vars

SpecSync == Init /\ [][NextSync]_vars

SpecDispatch == Init /\ [][NextDispatch]_vars

SpecStart == Init /\ [][NextStart]_vars

SpecCounts == Init /\ [][NextCounts]_vars

SpecProgress == Init /\ [][NextProgress]_vars

SpecPage == Init /\ [][NextPage]_vars

\* C1: after a tag-deletion batch commits, no contact document in the store
\* contains a deleted tag id, whatever the store became before the commit.
C1_NoContactKeepsDeletedTag ==
    [][(batch.phase = "pending" /\ batch'.phase = "ok")
        => \A c \in DOMAIN contactDocs' : contactDocs'[c] \cap batch.deletes = {}]_vars

AllApplied ==
    /\ tagDocs' \cap batch.deletes = {}
    /\ \A ct \in batch.updates : ct[1] \in DOMAIN contactDocs' /\ ct[2] \notin contactDocs'[ct[1]]

NoneApplied == tagDocs' = tagDocs /\ contactDocs' = contactDocs

\* C2: the commit of a tag deletion applies every listed write or none; when a
\* listed contact no longer exists the commit fails and the store is unchanged.
C2_TagDeletionAtomic ==
    [][(batch.phase = "pending" /\ batch'.phase # "pending")
        => /\ AllApplied \/ NoneApplied
           /\ batch'.phase = "ok" => AllApplied
           /\ batch'.phase = "failed" => NoneApplied
           /\ ~BatchCanCommit(batch) => batch'.phase = "failed"]_vars

\* A failed commit whose batch deletes an existing tag that another listed,
\* still existing contact carries.
C2_Witness ==
    /\ batch.phase = "failed"
    /\ \E ct \in batch.updates :
         /\ ct[1] \in DOMAIN contactDocs
         /\ ct[2] \in contactDocs[ct[1]]
         /\ ct[2] \in tagDocs

\* C3: for every campaign, successCount + failureCount <= totalRecipients in
\* every state of the store record.
C3_CountersWithinTotal ==
    campaign.status # "none"
        => campaign.successCount + campaign.failureCount <= campaign.totalRecipients

\* C4: a campaign's status becomes completed, failed or cancelled only from
\* in-progress.
C4_TerminalOnlyFromInProgress ==
    [][(campaign'.status \in TerminalStatuses /\ campaign'.status # campaign.status)
        => campaign.status = "in-progress"]_vars

\* C5: every status change made by startCampaign, pauseCampaign or
\* resumeCampaign follows the machine: start from pending or scheduled, pause
\* from in-progress, resume from paused, and never out of a terminal status.
C5_StatusMachine ==
    lastWrite.from # campaign.status
        => /\ lastWrite.op = "start" => lastWrite.from \in {"pending", "scheduled"}
           /\ lastWrite.op = "pause" => lastWrite.from = "in-progress"
           /\ lastWrite.op = "resume" => lastWrite.from = "paused"

\* C6: the prober never throws, and an invocation that ends because the
\* runtime is absent, the PING hit a transport error or no reply came within
\* the timeout leaves the status {isInstalled: false, isConnected: false}.
C6_ProberDegrades ==
    [][\A i \in ProbeIds :
         (probes[i].pc # "done" /\ probes'[i].pc = "done")
           => /\ probes'[i].outcome = "returned"
              /\ probes'[i].cause \in FailureCauses
                   => (~status'.isInstalled /\ ~status'.isConnected)]_vars

\* An invocation timed out after an overlapping one had set the status to
\* connected.
C6_Witness ==
    \E i \in ProbeIds :
        /\ probes[i].pc = "done"
        /\ probes[i].cause = "timeout"
        /\ status = NotAvailable
        /\ \E j \in ProbeIds \ {i} : probes[j].pc = "done" /\ probes[j].cause = "reply"

\* C7: every request sent to the companion settles even if the companion never
\* replies, because each is guarded by a timeout: while its promise is pending
\* its timer is armed.
C7_EveryRequestHasTimeout ==
    \A k \in RequestKinds : requests[k].state = "pending" => requests[k].timer

\* C8: when a local collection changed and the connection checks of its push
\* report connected, a SYNC_*_TO_EXTENSION message carrying the whole new
\* collection (empty or not) is handed to the companion.
C8_PushSentWhenConnected ==
    [][\A i \in PushIds :
         (pushes[i].pc = "sync" /\ pushes'[i].pc # "sync" /\ isExtensionConnected)
         => \E n \in 1..Len(outbox') :
              /\ outbox'[n].push = i
              /\ outbox'[n].type = SyncType(pushes[i].kind)
              /\ outbox'[n].payload = pushes[i].data]_vars

\* A push never has more than one message, a skipped push has none and is over.
AtMostOnce ==
    \A i \in PushIds :
        /\ Cardinality(MessagesOf(i)) <= 1
        /\ pushes[i].result # "queued"
        /\ pushes[i].result = "skipped" => (pushes[i].pc = "done" /\ MessagesOf(i) = {})

\* C9: when the connection check reports not-connected, the push ends at once
\* as skipped with no message sent and nothing kept for later; whatever happens
\* afterwards (a reconnect included), a skipped push never gets a message and no
\* push gets more than one.
C9_SkippedSilently ==
    [][/\ \A i \in PushIds :
            (pushes[i].pc \in {"check", "sync"} /\ pushes'[i] # pushes[i]
             /\ ~isExtensionConnected)
            => (pushes'[i].pc = "done" /\ pushes'[i].result = "skipped"
                /\ outbox' = outbox)
       /\ AtMostOnce']_vars

\* A push was skipped while the companion was out of reach, the companion is
\* connected again, and nothing was sent for that push.
C9_Witness ==
    \E i \in PushIds :
        /\ pushes[i].result = "skipped"
        /\ isExtensionConnected
        /\ runtime = "present"
        /\ MessagesOf(i) = {}
        /\ \E j \in PushIds : j > i /\ pushes[j].result = "sent"

\* C10: when the handler of a change notification with payload P commits, the
\* ids in the store collection are exactly the ids of P, whatever was written
\* to the collection between the handler's read and its commit.
C10_StoreEqualsPayload ==
    [][(sync.pc = "commit" /\ sync'.pc = "done")
       => store'[sync.kind] = sync.payload]_vars

\* C11: sendBulkCampaign called while the status recorded by the last probe
\* is disconnected rejects in the call itself: no ping or command reply is awaited and no
\* BULK_SEND is sent.
C11_RejectsAtOnceWhenDisconnected ==
    [][(/\ bulk.pc = "idle" /\ bulk'.pc # "idle"
        /\ \E i \in ProbeIds : probes[i].pc = "done"
        /\ ~status.isConnected)
       => (bulk'.pc = "done" /\ bulk'.outcome = "rejected" /\ ~bulk'.bulkSent)]_vars

\* C12: a start operation reports success only if the companion replied that
\* the job was accepted (status "started").
C12_SuccessOnlyIfStarted ==
    start.outcome = "resolved" => start.cause = "started"

\* C19: the store write of a start is committed before BULK_SEND is sent, and
\* a dispatch step that fails after it (campaign not found, no valid contacts,
\* transport error) reports the failure to the caller and writes nothing to
\* the store: unless another session wrote meanwhile, the record is still
\* in-progress.
C19_OrderedDualWrite ==
    [][/\ start'.bulkSent => start'.written
       /\ (start.pc # "done" /\ start'.pc = "done" /\ start'.cause \in DispatchFailures)
          => /\ start'.outcome = "rejected"
             /\ start'.toast = "error"
             /\ campaign' = campaign
             /\ lastWrite.op = "start" => campaign'.status = "in-progress"]_vars

\* The dispatch failed on a transport error after BULK_SEND was sent; the
\* record is left in-progress.
C19_Witness ==
    /\ start.pc = "done"
    /\ start.cause = "lastError"
    /\ start.bulkSent
    /\ start.outcome = "rejected"
    /\ campaign.status = "in-progress"

\* C17: while the campaign's status is in-progress, a store write never lowers
\* its currentIndex, successCount or failureCount.
C17_CountersMonotonic ==
    [][(campaign.status = "in-progress" /\ campaign'.status = "in-progress")
       => /\ campaign'.currentIndex >= campaign.currentIndex
          /\ campaign'.successCount >= campaign.successCount
          /\ campaign'.failureCount >= campaign.failureCount]_vars

\* C16: after the effects have run, every tag in application state has a
\* contactCount equal to the number of contacts in application state whose
\* tags contain its id.
C16_ContactCountIsView ==
    \A t \in DOMAIN appTags : appTags[t] = ContactCount(t, appContacts)

\* Progress counters of a snapshot.
Counters(p) == <<p.currentIndex, p.successCount, p.failureCount>>

\* C13: merging is last-write-wins on the whole snapshot: once a snapshot has
\* been delivered, by a push notification or by a poll reply, the displayed
\* currentIndex, successCount and failureCount are those of that snapshot.
C13_LastWriteWins ==
    [][LET shown == mergedBulkSendProgress(extensionBulkSendProgress', bulkSendProgress')
       IN  /\ (/\ pushQueue # <<>>
               /\ pushQueue' = Tail(pushQueue)
               /\ Head(pushQueue).type # "BULK_SEND_COMPLETE")
              => Counters(shown) = Counters(Head(pushQueue).progress)
           /\ \A r \in pollReplies :
                (mounted /\ pollReplies' = pollReplies \ {r})
                => Counters(shown) = Counters(r)]_vars

\* C14: for one run the completion handler fires once: a step fires it only
\* if it has not fired before, and then the progress shown goes from active
\* to inactive or null.
C14_CompletionFiresOnce ==
    [][completions' # completions
       => /\ completions = 0
          /\ completions' = 1
          /\ JustCompleted(lastProgressState,
                           mergedBulkSendProgress(extensionBulkSendProgress',
                                                  bulkSendProgress'))]_vars

\* C15: the completion notification is shown only on a transition from an
\* active snapshot: the step that shows 'Campaign Complete' starts where the
\* page holds an active snapshot, and the completion handler of SimpleBulkSend
\* fires only from an active previous progress.
C15_CompletionNeedsActiveBefore ==
    [][/\ (/\ Len(pageToasts') > Len(pageToasts)
           /\ pageToasts'[Len(pageToasts')] = "Campaign Complete")
          => (~pageProgress.isNull /\ pageProgress.isActive)
       /\ completions' > completions
          => (~lastProgressState.isNull /\ lastProgressState.isActive)]_vars

(***************************************************************************)
(* A campaign of the store and its run in the companion: the store writes  *)
(* the web app makes (add, start) next to the progress paths; the run      *)
(* begins once the record is in-progress.  Nothing in the web app calls    *)
(* completeCampaign, so it is no step here.                                *)
(***************************************************************************)
NextFinalize ==
    \/ \E s \in Sessions, n \in 1..MaxRecipients, b \in BOOLEAN : addCampaign(s, n, b)
    \/ \E s \in Sessions : run.phase = "idle" /\ startCampaign(s)
    \/ \E s \in Sessions : CampaignsSnapshot(s)
    \/ \E byHook, notifies \in BOOLEAN :
         campaign.status = "in-progress" /\ CompanionStart(byHook, notifies)
    \/ ProgressSteps

SpecFinalize == Init /\ [][NextFinalize]_vars /\ WF_vars(NextFinalize)

\* C18: once the completion of the run was observed or the cancel was
\* acknowledged while the campaign is in-progress in the store, the store
\* record eventually gets a terminal status.
C18_EventuallyFinalized ==
    ((completions > 0 \/ cancel = "acked") /\ campaign.status = "in-progress")
    ~> (campaign.status \in TerminalStatuses)

(***************************************************************************)
(* The two intervals of useExtension: the poller of a run and the periodic *)
(* probe, which the probe effect arms on mount and clears on unmount.  The  *)
(* run is one started by the hook and followed by polling alone.           *)
(***************************************************************************)
\* setInterval(checkExtensionStatus, 5000) fires: a probe begins.  The ping of
\* the probe before it has been settled by then, by its 2000 ms timer at the
\* latest, so the interval has one probe under way at a time.
IntervalProbe(i) ==
    /\ probeInterval
    /\ \A j \in ProbeIds \ {i} : probes[j].pc = "idle"
    /\ ProbeNoRuntime(i) \/ ProbeSendPing(i) \/ ProbeSendThrows(i)

NextPoller ==
    \/ CompanionStart(TRUE, FALSE)
    \/ \E ok \in BOOLEAN : CompanionStep(ok)
    \/ CompanionFinish(FALSE)
    \/ PollTick
    \/ \E r \in pollReplies : PollDeliver(r)
    \/ HookClearTimeout
    \/ Unmount
    \/ \E i \in ProbeIds : IntervalProbe(i)
    \/ \E i \in ProbeIds, r \in Replies : ProbeReply(i, r)
    \/ \E i \in ProbeIds : ProbeLastError(i)
    \/ \E i \in ProbeIds : ProbeTimeout(i)
    \/ \E i \in ProbeIds : ProbeAgain(i)

SpecPoller == Init /\ [][NextPoller]_vars

SpecDoc == Init /\ [][NextDoc]_vars

SpecRecipients == Init /\ [][NextRecipients]_vars

SpecProvider == Init /\ [][NextProvider]_vars

\* C20: once the poller has received a snapshot with isActive false, and once
\* the hook is unmounted, no GET_BULK_PROGRESS request is sent any more; once
\* the hook is unmounted no probe (PING) begins any more.
C20_TimersStopped ==
    [][/\ (~mounted \/ hookClearTimer # "off") => pollReplies' \subseteq pollReplies
       /\ ~mounted => \A i \in ProbeIds : probes[i].pc = "idle" => probes'[i].pc = "idle"]_vars

\* The hook was unmounted after polls and probes had run, while the run is
\* still active.
C20_Witness ==
    /\ ~mounted
    /\ ~bulkSendProgress.isNull
    /\ run.phase = "active"
    /\ \E i \in ProbeIds : probes[i].pc = "idle"
    /\ \E i \in ProbeIds : probes[i].pc = "done"

\* The fields of the document a progress update must leave alone.
ProgressFrame(d) ==
    <<d.exists, d.status, d.totalRecipients, d.recipientContactIds,
      d.createdAt, d.startedAt, d.completedAt, d.updatedAt>>

\* C21: a progress update leaves the status, the total, the recipient list and
\* the timestamps as they were, also when the counters reach the total.
C21_ProgressKeepsStatus ==
    [][docOp' = "updateCampaignProgress"
       => ProgressFrame(campaignDoc') = ProgressFrame(campaignDoc)]_vars

\* A progress update has written counters that reach the total of an
\* in-progress campaign.
C21_Witness ==
    /\ docOp = "updateCampaignProgress"
    /\ campaignDoc.status = "in-progress"
    /\ campaignDoc.successCount + campaignDoc.failureCount = campaignDoc.totalRecipients
    /\ campaignDoc.currentIndex = campaignDoc.totalRecipients

\* C22: the error log is append-only: whatever store function writes an
\* existing campaign, every entry of the stored log is in the log afterwards.
C22_ErrorLogAppendOnly ==
    [][campaignDoc.exists
       => \A i \in 1..Len(campaignDoc.errors) :
            \E j \in 1..Len(campaignDoc'.errors) :
              campaignDoc'.errors[j] = campaignDoc.errors[i]]_vars

\* A log of two entries has been through a second progress update and a
\* completion.
C22_Witness ==
    /\ Len(campaignDoc.errors) >= 2
    /\ campaignDoc.errors[1] # campaignDoc.errors[2]
    /\ docOp = "completeCampaign"
    /\ campaignDoc.startedAt

\* C23: the prober tells "runtime present but no response" from "runtime not
\* present": a probe that ends by its timeout records a status other than the
\* one recorded when the runtime is absent (isInstalled false, isConnected
\* false, no version).
C23_ProberDistinguishes ==
    [][\A i \in ProbeIds :
         (probes[i].pc = "awaiting" /\ probes'[i].pc = "done"
          /\ probes'[i].cause = "timeout")
         => status' # NotAvailable]_vars

\* C24: a probe reports the companion as connected only if a PONG-type reply
\* to its PING arrived: the step in which a probe records connected is the
\* arrival of a reply of type PONG.
C24_ConnectedOnlyOnPong ==
    [][\A i \in ProbeIds :
         (probes[i].pc = "awaiting" /\ probes'[i].pc = "done" /\ status'.isConnected)
         => probes'[i].reply = "PONG"]_vars

\* C25: every recipient of a BULK_SEND message has a platform user id, from
\* the simple form and from a stored campaign alike.
C25_RecipientsHaveUserId ==
    \A r \in bulkSend.recipients : r.userId

\* C26: polling is switched on by a sendBulkCampaign call only if that call
\* resolves with success: a step that switches shouldPoll on is the step in
\* which the call resolves.
C26_PollingOnlyOnSuccess ==
    [][(~shouldPoll /\ shouldPoll')
       => (bulk.pc = "bulk" /\ bulk'.pc = "done" /\ bulk'.outcome = "resolved")]_vars

\* C27: after cancelBulkSend has resolved true the hook's bulkSendProgress
\* stays null (no further sendBulkCampaign follows in a run): no step takes it
\* from null to a snapshot once the cancel is acknowledged.
C27_NullAfterCancel ==
    [][(cancel = "acked" /\ bulkSendProgress.isNull) => bulkSendProgress'.isNull]_vars

\* C28: for each collection kind the SYNC_*_TO_EXTENSION messages are sent in
\* the order of the changes that triggered them (pushes are numbered in the
\* order they were started): of two messages of a kind with different
\* payloads the one sent later belongs to the later change.
C28_PushesSentInOrder ==
    \A m, n \in 1..Len(outbox) :
        (m < n /\ outbox[m].type = outbox[n].type /\ outbox[m].payload # outbox[n].payload)
        => outbox[m].push < outbox[n].push

\* C29: every collection handed to a push is the signed-in user's store
\* collection as a snapshot delivered it: a step that makes a push has a user
\* signed in and the payload is the user's collection in the store.
C29_PushesAreStoreSnapshots ==
    [][handed'.n > handed.n
       => (provUser' # "null" /\ provLoaded' /\ handed'.data = userStore)]_vars

(***************************************************************************)
(* The poller from the 'started' reply on, where the companion has         *)
(* accepted the job before its progress becomes active: until then its     *)
(* answer to GET_BULK_PROGRESS is its idle progress, with isActive false.  *)
(***************************************************************************)
\* sendBulkCampaign gets the 'started' reply: setShouldPoll(true), and the
\* effect on shouldPoll starts pollProgress.  The job is not active yet.
CompanionAccept ==
    /\ run.phase = "idle"
    /\ mounted /\ isChromeMessagingAvailable
    /\ run' = [run EXCEPT !.phase = "accepted"]
    /\ shouldPoll' = TRUE
    /\ pollInterval' = TRUE
    /\ UNCHANGED <<pushQueue, pollReplies, extensionBulkSendProgress, bulkSendProgress,
                   lastProgressState, completions, probeInterval, mounted,
                   extClearTimer, hookClearTimer, cancel, bulk, nonDispatchProgressVars>>

\* The accepted job becomes active in the companion.
CompanionActivate ==
    /\ run.phase = "accepted"
    /\ run' = [run EXCEPT !.phase = "active"]
    /\ UNCHANGED <<pushQueue, pollReplies, extensionBulkSendProgress, bulkSendProgress,
                   lastProgressState, completions, pollInterval, probeInterval,
                   mounted, extClearTimer, hookClearTimer, cancel, nonProgressVars>>

NextAccept ==
    \/ CompanionAccept
    \/ CompanionActivate
    \/ \E ok \in BOOLEAN : CompanionStep(ok)
    \/ CompanionFinish(FALSE)
    \/ PollTick
    \/ \E r \in pollReplies : PollDeliver(r)
    \/ HookClearTimeout

SpecAccept == Init /\ [][NextAccept]_vars

\* C30: after the 'started' reply the poller keeps polling until it has seen
\* an active snapshot followed by an inactive one: while it is polling and has
\* stored no snapshot yet, no step stops the polling or arms the timer that
\* clears the progress.
C30_InactiveFirstKeepsPolling ==
    [][(pollInterval /\ bulkSendProgress.isNull /\ hookClearTimer = "off")
       => (pollInterval' /\ hookClearTimer' = "off")]_vars

====
